---- MODULE Spec2Model ----
(***************************************************************************)
(* Model of the GCE backend of travis-ci/worker (backend/gce.go).          *)
(*                                                                         *)
(*   Spec, StartFairSpec : gceProvider.Start, its insert and group-add     *)
(*                         pollers, the cloud operations they poll and the *)
(*                         execution context.                              *)
(*   UploadSpec          : gceInstance.UploadScript, its background        *)
(*                         uploader, uploadScriptAttempt and the guest's   *)
(*                         build.sh.                                       *)
(*                                                                         *)
(* Goroutines are interleaved at every blocking call: a cloud API round    *)
(* trip, an SSH/SFTP call, a sleep, a channel operation.  A send on an     *)
(* unbuffered channel is a rendezvous with the receiving select.           *)
(***************************************************************************)
EXTENDS Integers, Sequences, FiniteSets

VARIABLES
    ctxErr,          \* ctx.Err(): "nil", "Canceled" or "DeadlineExceeded"
    ctxBeforeDone,   \* history: ctx fired while Start ran and before a poll of the
                     \* insert op returned DONE
    instanceGroup,   \* p.instanceGroup != ""
    startPC,         \* position of the goroutine running Start
    abandonedStart,  \* the local flag read by the deferred function
    insertOK,        \* history: Instances.Insert returned without error
    refreshed,       \* history: Instances.Get of the group path succeeded
    ops,             \* cloud side: the insert and the group-add zone operation
    pollPC,          \* position of each polling goroutine
    pollObs,         \* last result of ZoneOperations.Get seen by each poller
    startRet,        \* what Start returned: handle?, error, and through which exit
    deleteCalls,     \* Instances.Delete calls issued by Start
    insertCalls,     \* Instances.Insert calls issued by Start
    addCalls,        \* InstanceGroups.AddInstances calls issued by Start
    bootTimer,       \* metrics.TimeSince("worker.vm.provider.gce.boot") count
    bootTimeout,     \* metrics.Mark("worker.vm.provider.gce.boot.timeout") count
    uploadRetries,   \* i.provider.uploadRetries
    buildSh,         \* the guest's build.sh: "absent", "prior", "partial", "script"
    uploadPC,        \* position of the goroutine running UploadScript
    uploaderPC,      \* position of the background uploader
    connBroken,      \* the current attempt's SSH connection was lost
    shAtStart,       \* history: build.sh as it was when the current attempt started
    errCount,        \* the uploader's errCount
    attempts,        \* uploadScriptAttempt calls started
    attemptLog,      \* the result of every finished attempt, in order
    sleeps,          \* time.Sleep(uploadRetrySleep) calls of the uploader
    uploadRet,       \* what UploadScript returned
    shAtCall,        \* history: build.sh as it was when UploadScript was called
    uploadOpen,      \* the connections the upload attempts hold open
    runPC,           \* position of the goroutine running RunScript
    remote,          \* the remote command: "none", "running", "exited", "lost"
    exitStatus,      \* the exit status the remote command reported
    runRet,          \* what RunScript returned: RunResult and error
    runOpen,         \* the connections RunScript holds open
    stopPC,          \* position of the goroutine running Stop
    stopOp,          \* cloud side: the delete zone operation
    stopPollPC,      \* position of Stop's polling goroutine
    stopObs,         \* last result of ZoneOperations.Get seen by Stop's poller
    stopRet,         \* what Stop returned
    stopDeletes,     \* Instances.Delete calls issued by Stop
    cfg,             \* the ProviderConfig mapping: the options set, each with its value
    cfgAtCall,       \* history: the mapping as newGCEProvider received it
    npPC,            \* position of newGCEProvider / the provider's use
    provider,        \* the gceProvider built, or NoProvider
    newErr,          \* the error newGCEProvider returned
    imagePath,       \* the resolution getImage dispatched to
    setupAsked,      \* the names Setup asked the cloud for
    setupRet,        \* what Setup returned
    language,        \* startAttributes.Language of the job
    imaged,          \* cloud side: the languages whose image filter matches an image
    queries,         \* the image queries legacyImageSelect made, with their outcome
    lisPC,           \* position of legacyImageSelect
    lisRet,          \* what legacyImageSelect returned: image and error
    imgFilter,       \* the filter imageByFilter was called with
    items,           \* cloud side: images.Items, the names Images.List answers
    ibfPC,           \* position of imageByFilter
    ibfRet,          \* what imageByFilter returned: image name and error
    nics,            \* cloud side: the NetworkInterfaces Instances.Get answers
    sshPC,           \* position of sshClient
    dialed,          \* the addresses ssh.Dial was called with, in order
    sshRet           \* what sshClient returned: "client" or the error

startVars == <<instanceGroup, startPC, abandonedStart, insertOK, refreshed, ops,
               pollPC, pollObs, startRet, deleteCalls, addCalls, bootTimer,
               bootTimeout, ctxBeforeDone, insertCalls>>

uploadVars == <<uploadRetries, buildSh, uploadPC, uploaderPC, connBroken, shAtStart,
                errCount, attempts, attemptLog, sleeps, uploadRet, shAtCall,
                uploadOpen>>

runVars == <<runPC, remote, exitStatus, runRet, runOpen>>

stopVars == <<stopPC, stopOp, stopPollPC, stopObs, stopRet, stopDeletes>>

providerVars == <<cfg, cfgAtCall, npPC, provider, newErr, imagePath, setupAsked, setupRet>>

legacyVars == <<language, imaged, queries, lisPC, lisRet>>

\* The lookups of a provider: image resolution and the guest's address.
filterVars == <<imgFilter, items, ibfPC, ibfRet>>

ipVars == <<nics, sshPC, dialed, sshRet>>

resolverVars == <<legacyVars, filterVars, ipVars>>

\* What the steps of one operation leave alone: the state of the others.
nonStartVars == <<uploadVars, runVars, stopVars, providerVars, resolverVars>>

nonUploadVars == <<startVars, runVars, stopVars, providerVars, resolverVars>>

nonRunVars == <<startVars, uploadVars, stopVars, providerVars, resolverVars>>

nonStopVars == <<startVars, uploadVars, runVars, providerVars, resolverVars>>

nonProviderVars == <<startVars, uploadVars, runVars, stopVars, resolverVars>>

\* The state of the operations on an instance.
instanceVars == <<startVars, uploadVars, runVars, stopVars>>

vars == <<ctxErr, startVars, uploadVars, runVars, stopVars, providerVars, resolverVars>>

\* Largest UPLOAD_RETRIES the model draws.
MaxRetries == 3

Pollers == {"insert", "group"}

NoOp == [status |-> "NONE", err |-> FALSE]

NewOp == [status |-> "PENDING", err |-> FALSE]

NoRet == [handle |-> FALSE, err |-> "none", via |-> "none"]

CtxDone == ctxErr # "nil"

(***************************************************************************)
(* The execution context.                                                  *)
(***************************************************************************)

\* The deadline fires or the caller cancels; a context is done once and for all.
CtxFire ==
    /\ ctxErr = "nil"
    /\ \E e \in {"Canceled", "DeadlineExceeded"} : ctxErr' = e
    /\ ctxBeforeDone' = (/\ startPC \notin {"idle", "defer", "returned"}
                         /\ pollObs["insert"] \notin {"DONE", "DONE_ERR"})
    /\ UNCHANGED <<instanceGroup, startPC, abandonedStart, insertOK, refreshed, ops,
                   pollPC, pollObs, startRet, deleteCalls, insertCalls, addCalls, bootTimer,
                   bootTimeout>>
    /\ UNCHANGED nonStartVars

(***************************************************************************)
(* The cloud: a zone operation goes PENDING -> RUNNING -> DONE and may     *)
(* acquire an Error payload on the way.                                    *)
(***************************************************************************)

NextStatus(s) == IF s = "PENDING" THEN "RUNNING" ELSE "DONE"

CloudAdvance(o) ==
    /\ ops[o].status \in {"PENDING", "RUNNING"}
    /\ \E e \in BOOLEAN :
          ops' = [ops EXCEPT ![o] = [status |-> NextStatus(ops[o].status),
                                     err |-> ops[o].err \/ e]]
    /\ UNCHANGED <<ctxErr, ctxBeforeDone, instanceGroup, startPC, abandonedStart,
                   insertOK, refreshed, pollPC, pollObs, startRet, deleteCalls, insertCalls,
                   addCalls, bootTimer, bootTimeout>>
    /\ UNCHANGED nonStartVars

(***************************************************************************)
(* The polling goroutines of Start.                                        *)
(***************************************************************************)

\* What one ZoneOperations.Get of a live operation shows the poller.
Observe(op) ==
    IF op.status = "DONE"
    THEN (IF op.err THEN "DONE_ERR" ELSE "DONE")
    ELSE (IF op.err THEN "MID_ERR" ELSE op.status)

\* Where the poller goes after a poll with that result.
AfterPoll(obs) ==
    CASE obs = "GET_ERR"  -> "sendErr"
      [] obs = "DONE_ERR" -> "sendErr"
      [] obs = "DONE"     -> "sendInst"
      [] obs = "MID_ERR"  -> "sendErr"
      [] OTHER            -> "sleep"

\* The error a poller blocked on errChan is sending.
PollErrNil(obs) == "nil"

PollErr(obs) == IF obs = "GET_ERR" THEN "transportErr" ELSE "opError"

\* One iteration of a polling loop up to its send or its sleep.
Poll(p) ==
    /\ pollPC[p] = "poll"
    /\ \E obs \in {"GET_ERR", Observe(ops[p])} :
          /\ pollObs' = [pollObs EXCEPT ![p] = obs]
          /\ pollPC' = [pollPC EXCEPT ![p] = AfterPoll(obs)]
    /\ UNCHANGED <<ctxErr, ctxBeforeDone, instanceGroup, startPC, abandonedStart,
                   insertOK, refreshed, ops, startRet, deleteCalls, insertCalls, addCalls,
                   bootTimer, bootTimeout>>
    /\ UNCHANGED nonStartVars

\* time.Sleep(p.bootPollSleep) returns.
PollWake(p) ==
    /\ pollPC[p] = "sleep"
    /\ pollPC' = [pollPC EXCEPT ![p] = "poll"]
    /\ UNCHANGED <<ctxErr, ctxBeforeDone, instanceGroup, startPC, abandonedStart,
                   insertOK, refreshed, ops, pollObs, startRet, deleteCalls, insertCalls,
                   addCalls, bootTimer, bootTimeout>>
    /\ UNCHANGED nonStartVars

(***************************************************************************)
(* gceProvider.Start.                                                      *)
(***************************************************************************)

\* case <-ctx.Done() of Start's selects can fire: the context's channel is
\* closed.
DoneNeverReady(err) == FALSE

DoneReady(err) == err # "nil"

\* The boot.timeout mark every ctx.Done() case makes before returning ctx.Err().
MarkTimeoutNever(n) == n

MarkTimeoutAlways(n) == n + 1

MarkTimeout(n) == IF ctxErr = "DeadlineExceeded" THEN n + 1 ELSE n

\* p.getImage: on error Start returns before anything was inserted.
StartGetImage ==
    /\ startPC = "getImage"
    /\ \/ /\ startPC' = "render"
          /\ UNCHANGED startRet
       \/ /\ startPC' = "returned"
          /\ startRet' = [handle |-> FALSE, err |-> "imageErr", via |-> "direct"]
    /\ UNCHANGED <<ctxErr, ctxBeforeDone, instanceGroup, abandonedStart, insertOK,
                   refreshed, ops, pollPC, pollObs, deleteCalls, insertCalls, addCalls,
                   bootTimer, bootTimeout>>
    /\ UNCHANGED nonStartVars

\* gceStartupScript.Execute.
StartRender ==
    /\ startPC = "render"
    /\ \/ /\ startPC' = "insert"
          /\ UNCHANGED startRet
       \/ /\ startPC' = "returned"
          /\ startRet' = [handle |-> FALSE, err |-> "templateErr", via |-> "direct"]
    /\ UNCHANGED <<ctxErr, ctxBeforeDone, instanceGroup, abandonedStart, insertOK,
                   refreshed, ops, pollPC, pollObs, deleteCalls, insertCalls, addCalls,
                   bootTimer, bootTimeout>>
    /\ UNCHANGED nonStartVars

\* Where Start waits once the insert poller runs.
AfterInsert == IF instanceGroup THEN "groupWait" ELSE "select"

\* The insert poller after Instances.Insert: the go statement is reached only
\* when Insert returned no error.
InsertPollerAlways(ok) == "poll"

InsertPoller(ok) == IF ok THEN "poll" ELSE "none"

\* Instances.Insert, the deferred function's registration and the spawn of the
\* insert poller.
StartInsert ==
    /\ startPC = "insert"
    /\ \/ /\ startPC' = "returned"
          /\ startRet' = [handle |-> FALSE, err |-> "insertErr", via |-> "direct"]
          /\ pollPC' = [pollPC EXCEPT !["insert"] = InsertPoller(FALSE)]
          /\ UNCHANGED <<insertOK, ops>>
       \/ /\ insertOK' = TRUE
          /\ ops' = [ops EXCEPT !["insert"] = NewOp]
          /\ pollPC' = [pollPC EXCEPT !["insert"] = InsertPoller(TRUE)]
          /\ startPC' = AfterInsert
          /\ UNCHANGED startRet
    /\ abandonedStart' = FALSE
    /\ insertCalls' = insertCalls + 1
    /\ UNCHANGED <<ctxErr, ctxBeforeDone, instanceGroup, refreshed, pollObs,
                   deleteCalls, addCalls, bootTimer, bootTimeout>>
    /\ UNCHANGED nonStartVars

\* The wait loop's case readyInst := <-origInstanceReady can fire: the insert
\* poller is blocked on its send.
GroupWaitNoWait == TRUE

GroupWaitInstReady == pollPC["insert"] = "sendInst"

\* case readyInst := <-origInstanceReady
StartGroupWaitRecv ==
    /\ startPC = "groupWait"
    /\ GroupWaitInstReady
    /\ pollPC' = [pollPC EXCEPT !["insert"] = "done"]
    /\ startPC' = "refresh"
    /\ UNCHANGED <<ctxErr, ctxBeforeDone, instanceGroup, abandonedStart, insertOK,
                   refreshed, ops, pollObs, startRet, deleteCalls, insertCalls,
                   addCalls, bootTimer, bootTimeout>>
    /\ UNCHANGED nonStartVars

\* case <-ctx.Done() of the wait loop, and the return of its error.
StartGroupWaitCtx ==
    /\ startPC = "groupWait"
    /\ DoneReady(ctxErr)
    /\ bootTimeout' = MarkTimeout(bootTimeout)
    /\ abandonedStart' = TRUE
    /\ startRet' = [handle |-> FALSE, err |-> ctxErr, via |-> "ctx"]
    /\ startPC' = "defer"
    /\ UNCHANGED <<ctxErr, ctxBeforeDone, instanceGroup, insertOK, refreshed, ops,
                   pollPC, pollObs, deleteCalls, insertCalls, addCalls, bootTimer>>
    /\ UNCHANGED nonStartVars

\* default: nothing is ready, sleep p.bootPollSleep.
StartGroupWaitDefault ==
    /\ startPC = "groupWait"
    /\ ~GroupWaitInstReady
    /\ ~CtxDone
    /\ startPC' = "groupSleep"
    /\ UNCHANGED <<ctxErr, ctxBeforeDone, instanceGroup, abandonedStart, insertOK,
                   refreshed, ops, pollPC, pollObs, startRet, deleteCalls,
                   insertCalls, addCalls, bootTimer, bootTimeout>>
    /\ UNCHANGED nonStartVars

StartGroupWake ==
    /\ startPC = "groupSleep"
    /\ startPC' = "groupWait"
    /\ UNCHANGED <<ctxErr, ctxBeforeDone, instanceGroup, abandonedStart, insertOK,
                   refreshed, ops, pollPC, pollObs, startRet, deleteCalls,
                   insertCalls, addCalls, bootTimer, bootTimeout>>
    /\ UNCHANGED nonStartVars

\* inst, err = Instances.Get(...) of the group path; its error return leaves
\* abandonedStart as it is.
StartRefresh ==
    /\ startPC = "refresh"
    /\ \/ /\ refreshed' = TRUE
          /\ startPC' = "addInstances"
          /\ UNCHANGED startRet
       \/ /\ startRet' = [handle |-> FALSE, err |-> "refreshErr", via |-> "direct"]
          /\ startPC' = "defer"
          /\ UNCHANGED refreshed
    /\ UNCHANGED abandonedStart
    /\ UNCHANGED <<ctxErr, ctxBeforeDone, instanceGroup, insertOK, ops, pollPC,
                   pollObs, deleteCalls, insertCalls, addCalls, bootTimer, bootTimeout>>
    /\ UNCHANGED nonStartVars

\* InstanceGroups.AddInstances and the spawn of the group-add poller.
StartAddInstances ==
    /\ startPC = "addInstances"
    /\ addCalls' = addCalls + 1
    /\ \/ /\ abandonedStart' = TRUE
          /\ startRet' = [handle |-> FALSE, err |-> "addErr", via |-> "direct"]
          /\ startPC' = "defer"
          /\ UNCHANGED <<ops, pollPC>>
       \/ /\ ops' = [ops EXCEPT !["group"] = NewOp]
          /\ pollPC' = [pollPC EXCEPT !["group"] = "poll"]
          /\ startPC' = "select"
          /\ UNCHANGED <<abandonedStart, startRet>>
    /\ UNCHANGED <<ctxErr, ctxBeforeDone, instanceGroup, insertOK, refreshed,
                   pollObs, deleteCalls, insertCalls, bootTimer, bootTimeout>>
    /\ UNCHANGED nonStartVars

\* Start receives from instChan and errChan only while it is blocked in the final
\* select; once it has returned nothing receives any more.
ReceivingAfterReturn(pc) == pc \in {"select", "returned"}

Receiving(pc) == pc = "select"

\* metrics.TimeSince("worker.vm.provider.gce.boot", startBooting) of the instChan
\* case.
RecordBootNever(n) == n

RecordBoot(n) == n + 1

\* The poller that sends on instChan: the group-add poller when a group is set.
InstSender == IF instanceGroup THEN "group" ELSE "insert"

\* case inst := <-instChan of the final select.
StartSelectInst ==
    /\ Receiving(startPC)
    /\ pollPC[InstSender] = "sendInst"
    /\ pollPC' = [pollPC EXCEPT ![InstSender] = "done"]
    /\ bootTimer' = RecordBoot(bootTimer)
    /\ startRet' = [handle |-> TRUE, err |-> "nil", via |-> "instChan"]
    /\ startPC' = "defer"
    /\ UNCHANGED <<ctxErr, ctxBeforeDone, instanceGroup, abandonedStart, insertOK,
                   refreshed, ops, pollObs, deleteCalls, insertCalls, addCalls, bootTimeout>>
    /\ UNCHANGED nonStartVars

\* case err := <-errChan of the final select.
StartSelectErr(p) ==
    /\ Receiving(startPC)
    /\ pollPC[p] = "sendErr"
    /\ pollPC' = [pollPC EXCEPT ![p] = "done"]
    /\ abandonedStart' = TRUE
    /\ startRet' = [handle |-> FALSE, err |-> PollErr(pollObs[p]), via |-> "errChan"]
    /\ startPC' = "defer"
    /\ UNCHANGED <<ctxErr, ctxBeforeDone, instanceGroup, insertOK, refreshed, ops,
                   pollObs, deleteCalls, insertCalls, addCalls, bootTimer, bootTimeout>>
    /\ UNCHANGED nonStartVars

\* case <-ctx.Done() of the final select.
StartSelectCtx ==
    /\ startPC = "select"
    /\ DoneReady(ctxErr)
    /\ bootTimeout' = MarkTimeout(bootTimeout)
    /\ abandonedStart' = TRUE
    /\ startRet' = [handle |-> FALSE, err |-> ctxErr, via |-> "ctx"]
    /\ startPC' = "defer"
    /\ UNCHANGED <<ctxErr, ctxBeforeDone, instanceGroup, insertOK, refreshed, ops,
                   pollPC, pollObs, deleteCalls, insertCalls, addCalls, bootTimer>>
    /\ UNCHANGED nonStartVars

\* if abandonedStart { ... Instances.Delete ... } of the deferred function.
DeferredDeleteAlways(flag) == TRUE

DeferredDelete(flag) == flag

\* The deferred function: a best-effort Instances.Delete when abandonedStart.
StartDeferred ==
    /\ startPC = "defer"
    /\ deleteCalls' = (IF DeferredDelete(abandonedStart) THEN deleteCalls + 1
                       ELSE deleteCalls)
    /\ startPC' = "returned"
    /\ UNCHANGED <<ctxErr, ctxBeforeDone, instanceGroup, abandonedStart, insertOK,
                   refreshed, ops, pollPC, pollObs, startRet, addCalls, bootTimer,
                   bootTimeout, insertCalls>>
    /\ UNCHANGED nonStartVars

StartStep ==
    \/ StartGetImage
    \/ StartRender
    \/ StartInsert
    \/ StartGroupWaitRecv
    \/ StartGroupWaitCtx
    \/ StartGroupWaitDefault
    \/ StartGroupWake
    \/ StartRefresh
    \/ StartAddInstances
    \/ StartSelectInst
    \/ \E p \in Pollers : StartSelectErr(p)
    \/ StartSelectCtx
    \/ StartDeferred

PollerStep(p) == Poll(p) \/ PollWake(p)

NoRunRet == [completed |-> FALSE, exitCode |-> 0, err |-> "none"]

\* The state in which no RunScript call is in progress.
RunIdle ==
    /\ runPC = "idle"
    /\ remote = "none"
    /\ exitStatus = 0
    /\ runRet = NoRunRet
    /\ runOpen = {}

\* The state in which no Stop call is in progress.
StopIdle ==
    /\ stopPC = "idle"
    /\ stopOp = NoOp
    /\ stopPollPC = "none"
    /\ stopObs = "none"
    /\ stopRet = "none"
    /\ stopDeletes = 0

\* No error, and the error of a call that has not returned.
NilErr == [kind |-> "nil", filter |-> ""]

NoErr == [kind |-> "none", filter |-> ""]

NoImageRet == [image |-> "none", err |-> NoErr]

\* imageByFilter has returned nothing; the empty name stands for a nil image.
NoFilterRet == [image |-> <<>>, err |-> NoErr]

\* The state in which no legacyImageSelect call is in progress.
LegacyIdle ==
    /\ language = ""
    /\ imaged = {}
    /\ queries = <<>>
    /\ lisPC = "idle"
    /\ lisRet = NoImageRet

\* The state in which no lookup is in progress.
\* The state in which no imageByFilter call is in progress.
FilterIdle ==
    /\ imgFilter = ""
    /\ items = <<>>
    /\ ibfPC = "idle"
    /\ ibfRet = NoFilterRet

\* The state in which no sshClient call is in progress.
IPIdle ==
    /\ nics = <<>>
    /\ sshPC = "idle"
    /\ dialed = <<>>
    /\ sshRet = "none"

ResolverIdle == LegacyIdle /\ FilterIdle /\ IPIdle

NoProvider == [built |-> FALSE]

\* Setup has asked the cloud for nothing.
NoSetup == [zone |-> "none", machineType |-> "none", network |-> "none"]

\* The state in which no provider is being built.
ProviderIdle ==
    /\ cfg = <<>>
    /\ cfgAtCall = <<>>
    /\ npPC = "idle"
    /\ provider = NoProvider
    /\ newErr = "none"
    /\ imagePath = "none"
    /\ setupAsked = NoSetup
    /\ setupRet = "none"

\* The state in which no UploadScript call is in progress.
UploadIdle ==
    /\ uploadRetries = 0
    /\ buildSh = "absent"
    /\ uploadPC = "idle"
    /\ uploaderPC = "none"
    /\ connBroken = FALSE
    /\ shAtStart = "none"
    /\ errCount = 0
    /\ attempts = 0
    /\ attemptLog = <<>>
    /\ sleeps = 0
    /\ uploadRet = "none"
    /\ shAtCall = "none"
    /\ uploadOpen = {}

\* A provider with or without INSTANCE_GROUP, at the call of Start.
Init ==
    /\ ctxErr = "nil"
    /\ ResolverIdle
    /\ ctxBeforeDone = FALSE
    /\ instanceGroup \in BOOLEAN
    /\ startPC = "getImage"
    /\ abandonedStart = FALSE
    /\ insertOK = FALSE
    /\ refreshed = FALSE
    /\ ops = [o \in Pollers |-> NoOp]
    /\ pollPC = [p \in Pollers |-> "none"]
    /\ pollObs = [p \in Pollers |-> "none"]
    /\ startRet = NoRet
    /\ deleteCalls = 0
    /\ insertCalls = 0
    /\ addCalls = 0
    /\ bootTimer = 0
    /\ bootTimeout = 0
    /\ UploadIdle
    /\ RunIdle
    /\ StopIdle
    /\ ProviderIdle

Next ==
    \/ CtxFire
    \/ \E o \in Pollers : CloudAdvance(o)
    \/ \E p \in Pollers : Poll(p)
    \/ \E p \in Pollers : PollWake(p)
    \/ StartStep

Spec == Init /\ [][Next]_vars

\* The Go scheduler runs every goroutine that can take a step; nothing makes the
\* cloud finish an operation or the context fire.
StartFairSpec ==
    /\ Spec
    /\ WF_vars(StartStep)
    /\ \A p \in Pollers : WF_vars(PollerStep(p))

(***************************************************************************)
(* Properties of Start.                                                    *)
(***************************************************************************)

StartReturned == startPC = "returned"

\* C1. Abandonment: a Start call whose Instances.Insert succeeded either
\* returns the Instance handle or has issued Instances.Delete by the time it
\* returns, on every exit path after the insert.
C1_Abandonment ==
    (StartReturned /\ insertOK) => (startRet.handle \/ deleteCalls >= 1)

\* C2. Once a poll has shown the insert operation DONE with an Error, Start
\* returns the wrapped operation error unless the context becomes done, with
\* and without INSTANCE_GROUP.
C2_OpErrorSurfaced ==
    (pollObs["insert"] = "DONE_ERR")
        ~> (CtxDone \/ (StartReturned /\ startRet.err = "opError"))

\* C3. Once a poll has shown the insert operation DONE with an Error, Start
\* issues Instances.Delete, whether or not the context ever becomes done.
C3_OpErrorDeletes ==
    (pollObs["insert"] = "DONE_ERR") ~> (deleteCalls >= 1)

\* C4 as stated: whenever the deadline fired before a poll showed the insert
\* operation DONE, Start returns the deadline error with boot.timeout marked
\* exactly once, under every interleaving.
C4_DeadlineAlwaysWins ==
    (StartReturned /\ insertOK /\ ctxErr = "DeadlineExceeded" /\ ctxBeforeDone)
        => (startRet.err = "DeadlineExceeded" /\ bootTimeout = 1)

\* C4 as amended: when the deadline has fired and no poll of the insert
\* operation has shown it DONE, in Error or unreachable by the time Start
\* returns, Start returns ctx.Err() (deadline exceeded), no handle, and
\* boot.timeout was marked exactly once, with and without INSTANCE_GROUP.
C4_DeadlineWhilePending ==
    (/\ StartReturned
     /\ insertOK
     /\ ctxErr = "DeadlineExceeded"
     /\ pollObs["insert"] \in {"none", "PENDING", "RUNNING"})
        => (/\ startRet = [handle |-> FALSE, err |-> "DeadlineExceeded", via |-> "ctx"]
            /\ bootTimeout = 1)

C4_Witness ==
    /\ StartReturned
    /\ insertOK
    /\ instanceGroup
    /\ ctxErr = "DeadlineExceeded"
    /\ pollObs["insert"] = "PENDING"
    /\ bootTimeout = 1

\* Start has decided what it returns, after a successful insert.
StartDecided == startPC \in {"defer", "returned"} /\ insertOK

\* The three terminations of the contract.
ReturnsInstance ==
    startRet = [handle |-> TRUE, err |-> "nil", via |-> "instChan"]

ReturnsPollError ==
    /\ startRet.via = "errChan"
    /\ ~startRet.handle
    /\ startRet.err \in {"opError", "transportErr"}

ReturnsCtxErr ==
    /\ startRet.via = "ctx"
    /\ ~startRet.handle
    /\ CtxDone
    /\ startRet.err = ctxErr

\* The group path's own exits: the error of Instances.Get or of AddInstances.
ReturnsGroupCallError ==
    /\ startRet.via = "direct"
    /\ ~startRet.handle
    /\ instanceGroup
    /\ startRet.err \in {"refreshErr", "addErr"}

\* C5 as stated: after the insert, Start returns the instance received on the
\* result channel, or an error emitted by a polling task, or ctx.Err(), and
\* nothing else.
C5_ThreeTerminations ==
    StartDecided => (ReturnsInstance \/ ReturnsPollError \/ ReturnsCtxErr)

\* C5 as amended: after the insert, Start returns the instance received on the
\* result channel, or an error emitted by a polling task, or ctx.Err(), or,
\* with INSTANCE_GROUP set, the error of the Instances.Get refresh or of the
\* AddInstances call; it never returns both a handle and an error, or neither.
C5_FourTerminations ==
    StartDecided =>
        /\ (ReturnsInstance \/ ReturnsPollError \/ ReturnsCtxErr \/ ReturnsGroupCallError)
        /\ (startRet.handle <=> startRet.err = "nil")

C5_Witness ==
    /\ StartReturned
    /\ insertOK
    /\ ReturnsGroupCallError
    /\ startRet.err = "addErr"

\* C6. With INSTANCE_GROUP, AddInstances is issued only after a poll showed
\* the insert operation DONE without Error and the instance was refreshed,
\* and the handle is returned only after a poll showed the group-add
\* operation DONE without Error.  Without INSTANCE_GROUP, AddInstances is
\* never issued and the handle is returned only after a poll showed the insert
\* operation DONE without Error.
C6_GroupOrdering ==
    /\ addCalls > 0 => (instanceGroup /\ pollObs["insert"] = "DONE" /\ refreshed)
    /\ (startRet.handle /\ instanceGroup) => (addCalls > 0 /\ pollObs["group"] = "DONE")
    /\ ~instanceGroup => (addCalls = 0 /\ (startRet.handle => pollObs["insert"] = "DONE"))

C6_Witness ==
    /\ StartReturned
    /\ instanceGroup
    /\ startRet.handle
    /\ addCalls = 1


SendStates == {"sendInst", "sendErr"}

\* Start has chosen its return value: it runs its deferred function or is back in
\* the caller.
StartDeciding == startPC \in {"defer", "returned"}

\* C15: the pollers never look at the context, and once Start has returned a
\* poller that has reached its send on instChan or errChan stays there for ever.
C15_DetachedPollerBlocks ==
    [][\A p \in Pollers :
          /\ (pollPC[p] = "poll" /\ CtxDone) => ENABLED Poll(p)
          /\ (StartReturned /\ pollPC[p] \in SendStates) => pollPC'[p] = pollPC[p]]_vars

\* Start has returned ctx.Err() and the insert poller, which polled on, has found
\* the operation DONE and is blocked in its send on instChan.
C15_Witness ==
    /\ StartReturned
    /\ startRet.via = "ctx"
    /\ pollObs["insert"] = "DONE"
    /\ pollPC["insert"] = "sendInst"

\* C16: the boot timer is recorded exactly once in a Start call that returns an
\* instance handle and never in a call that returns an error.
C16_BootTimerOnce ==
    /\ bootTimer <= 1
    /\ StartDeciding => (bootTimer = 1 <=> startRet.handle)
    /\ ~StartDeciding => bootTimer = 0

\* Start has returned an instance handle, the timer recorded once.
C16_Witness ==
    /\ StartReturned
    /\ startRet.handle
    /\ bootTimer = 1

\* C17: the boot.timeout counter is marked at most once per Start call, and it is
\* marked exactly when Start returns the context's deadline-exceeded error.
C17_TimeoutMark ==
    /\ bootTimeout <= 1
    /\ StartDeciding => (bootTimeout = 1 <=> startRet.err = "DeadlineExceeded")
    /\ ~StartDeciding => bootTimeout = 0

\* Start has returned deadline-exceeded with the counter marked once.
C17_Witness ==
    /\ StartReturned
    /\ startRet.err = "DeadlineExceeded"
    /\ bootTimeout = 1


\* C18: once a poll, by either poller, has shown an operation that carries an
\* Error while its status is not DONE, Start fails and the abandonment delete is
\* issued.
C18_MidErrorFatal ==
    (\E p \in Pollers : pollObs[p] = "MID_ERR")
        ~> (StartReturned /\ ~startRet.handle /\ deleteCalls >= 1)


\* C30: Start issues Instances.Insert at most once and Instances.Delete at most
\* once, the Delete only after the Insert has returned successfully, and never
\* for the instance of a handle it returns.
C30_CallDiscipline ==
    /\ insertCalls <= 1
    /\ deleteCalls <= 1
    /\ deleteCalls >= 1 => (insertOK /\ insertCalls = 1)
    /\ startRet.handle => deleteCalls = 0
    /\ insertOK => insertCalls = 1

\* Start has returned a handle after one Insert and no Delete.
C30_Witness ==
    /\ StartReturned
    /\ startRet.handle
    /\ insertCalls = 1
    /\ deleteCalls = 0


\* C31: under fair scheduling, once the context is done Start returns, with and
\* without INSTANCE_GROUP and whatever the operations report.
C31_StartReturns == CtxDone ~> StartReturned

\* Start, with INSTANCE_GROUP set, has returned ctx.Err() from its wait loop
\* while the insert operation was still pending.
C31_Witness ==
    /\ instanceGroup
    /\ CtxDone
    /\ StartReturned
    /\ startRet.via = "ctx"
    /\ ops["insert"].status = "PENDING"
    /\ pollPC["group"] = "none"


\* The errors Start returns before an instance exists.
EarlyErrors == {"imageErr", "templateErr", "insertErr"}

\* C33: a Start call that fails at image resolution, at the rendering of the
\* startup script or at Instances.Insert returns that error with a nil handle,
\* issues no Instances.Delete, spawns no poller and records neither the boot
\* timer nor the boot.timeout counter, whatever the context does.
C33_EarlyFailure ==
    /\ (StartReturned /\ ~insertOK) =>
          /\ startRet.err \in EarlyErrors
          /\ ~startRet.handle
          /\ startRet.via = "direct"
          /\ startRet.err = "insertErr" <=> insertCalls = 1
          /\ startRet.err \in {"imageErr", "templateErr"} <=> insertCalls = 0
          /\ deleteCalls = 0
          /\ addCalls = 0
          /\ \A p \in Pollers : pollPC[p] = "none" /\ pollObs[p] = "none"
          /\ bootTimer = 0
          /\ bootTimeout = 0
    /\ (StartReturned /\ startRet.err \in EarlyErrors) => ~insertOK

\* Instances.Insert has failed and the deadline of the context has passed since:
\* Start has returned the insert error.
C33_Witness ==
    /\ StartReturned
    /\ ~insertOK
    /\ insertCalls = 1
    /\ startRet = [handle |-> FALSE, err |-> "insertErr", via |-> "direct"]
    /\ ctxErr = "DeadlineExceeded"

(***************************************************************************)
(* gceInstance.UploadScript, its uploader goroutine and                    *)
(* uploadScriptAttempt.                                                    *)
(***************************************************************************)

\* if errCount > i.provider.uploadRetries
GiveUpOff(cnt, n) == cnt >= n

GiveUpLate(cnt, n) == cnt > n + 1

GiveUp(cnt, n) == cnt > n

\* _, err = sftp.Lstat("build.sh"); if err == nil: the file is there and the
\* reply arrived.
StaleCheckSkipped(sh, broken) == FALSE

StaleCheck(sh, broken) == sh # "absent" /\ ~broken

\* What the uploader sends on uploadedChan for an attempt's result.
SendVal(res) == IF res = "ok" THEN "nil" ELSE res

\* if ctx.Err() != nil { return } at the top of the uploader's loop.
LeaveLoopNever(err) == FALSE

LeaveLoop(err) == err # "nil"

\* defer client.Close(), defer sftp.Close(), defer session.Close(): what is still
\* open once the deferred calls of a returning function have run.
CloseNothing(open) == open

CloseDeferred(open) == {}

\* UploadScript makes the channel, spawns the uploader and enters its select.
UploadCall ==
    /\ uploadPC = "call"
    /\ uploadPC' = "select"
    /\ uploaderPC' = "top"
    /\ shAtCall' = buildSh
    /\ UNCHANGED uploadOpen
    /\ UNCHANGED <<uploadRetries, buildSh, connBroken, shAtStart, errCount, attempts,
                   attemptLog, sleeps, uploadRet>>
    /\ UNCHANGED <<ctxErr, nonUploadVars>>

\* The top of the uploader's loop: leave when ctx.Err() != nil, else call
\* uploadScriptAttempt.
UploaderTop ==
    /\ uploaderPC = "top"
    /\ IF LeaveLoop(ctxErr)
       THEN /\ uploaderPC' = "done"
            /\ UNCHANGED <<attempts, connBroken, shAtStart>>
       ELSE /\ uploaderPC' = "ssh"
            /\ attempts' = attempts + 1
            /\ connBroken' = FALSE
            /\ shAtStart' = buildSh
    /\ UNCHANGED <<uploadRetries, buildSh, uploadPC, errCount, attemptLog, sleeps,
                   uploadRet>>
    /\ UNCHANGED <<shAtCall, uploadOpen>>
    /\ UNCHANGED <<ctxErr, nonUploadVars>>

\* uploadScriptAttempt returned res: the rest of the loop body, up to the send
\* or the sleep.
AttemptReturns(res) ==
    /\ attemptLog' = Append(attemptLog, res)
    /\ uploadOpen' = CloseDeferred(uploadOpen)
    /\ IF res = "ok"
       THEN /\ uploaderPC' = "send"
            /\ UNCHANGED <<errCount, sleeps>>
       ELSE /\ errCount' = errCount + 1
            /\ IF GiveUp(errCount + 1, uploadRetries)
               THEN /\ uploaderPC' = "send"
                    /\ UNCHANGED sleeps
               ELSE /\ uploaderPC' = "sleep"
                    /\ sleeps' = sleeps + 1

\* client, err := i.sshClient()
AttemptSSH ==
    /\ uploaderPC = "ssh"
    /\ \/ /\ uploaderPC' = "sftp"
          /\ uploadOpen' = uploadOpen \cup {"ssh"}
          /\ UNCHANGED <<errCount, attemptLog, sleeps>>
       \/ AttemptReturns("sshErr")
    /\ UNCHANGED <<uploadRetries, buildSh, uploadPC, connBroken, shAtStart, attempts,
                   uploadRet>>
    /\ UNCHANGED shAtCall
    /\ UNCHANGED <<ctxErr, nonUploadVars>>

\* sftp, err := sftp.NewClient(client)
AttemptSFTP ==
    /\ uploaderPC = "sftp"
    /\ \/ /\ uploaderPC' = "lstat"
          /\ uploadOpen' = uploadOpen \cup {"sftp"}
          /\ UNCHANGED <<errCount, attemptLog, sleeps>>
       \/ AttemptReturns("sftpErr")
    /\ UNCHANGED <<uploadRetries, buildSh, uploadPC, connBroken, shAtStart, attempts,
                   uploadRet>>
    /\ UNCHANGED shAtCall
    /\ UNCHANGED <<ctxErr, nonUploadVars>>

\* sftp.Lstat("build.sh"): the connection may be lost under it; any error
\* sends the attempt on to Create.
AttemptLstat ==
    /\ uploaderPC = "lstat"
    /\ \E lost \in BOOLEAN :
          /\ connBroken' = lost
          /\ IF StaleCheck(buildSh, lost)
             THEN AttemptReturns("ErrStaleVM")
             ELSE /\ uploaderPC' = "create"
                  /\ UNCHANGED <<errCount, attemptLog, sleeps, uploadOpen>>
    /\ UNCHANGED <<uploadRetries, buildSh, uploadPC, shAtStart, attempts, uploadRet>>
    /\ UNCHANGED shAtCall
    /\ UNCHANGED <<ctxErr, nonUploadVars>>

\* f, err := sftp.Create("build.sh"): on success the file exists and is empty;
\* nothing succeeds on a lost connection.
AttemptCreate ==
    /\ uploaderPC = "create"
    /\ \/ /\ ~connBroken
          /\ buildSh' = "partial"
          /\ uploaderPC' = "write"
          /\ UNCHANGED <<errCount, attemptLog, sleeps, uploadOpen>>
       \/ /\ AttemptReturns("createErr")
          /\ UNCHANGED buildSh
    /\ UNCHANGED <<uploadRetries, uploadPC, connBroken, shAtStart, attempts, uploadRet>>
    /\ UNCHANGED shAtCall
    /\ UNCHANGED <<ctxErr, nonUploadVars>>

\* f.Write(script): all of the script, or an error that leaves the file short.
AttemptWrite ==
    /\ uploaderPC = "write"
    /\ \/ /\ buildSh' = "script"
          /\ AttemptReturns("ok")
       \/ /\ AttemptReturns("writeErr")
          /\ UNCHANGED buildSh
    /\ UNCHANGED <<uploadRetries, uploadPC, connBroken, shAtStart, attempts, uploadRet>>
    /\ UNCHANGED shAtCall
    /\ UNCHANGED <<ctxErr, nonUploadVars>>

\* time.Sleep(i.provider.uploadRetrySleep) returns.
UploaderWake ==
    /\ uploaderPC = "sleep"
    /\ uploaderPC' = "top"
    /\ UNCHANGED <<uploadRetries, buildSh, uploadPC, connBroken, shAtStart, errCount,
                   attempts, attemptLog, sleeps, uploadRet>>
    /\ UNCHANGED <<shAtCall, uploadOpen>>
    /\ UNCHANGED <<ctxErr, nonUploadVars>>

\* case err := <-uploadedChan
UploadSelectRecv ==
    /\ uploadPC = "select"
    /\ uploaderPC = "send"
    /\ uploadRet' = SendVal(attemptLog[Len(attemptLog)])
    /\ uploaderPC' = "done"
    /\ uploadPC' = "returned"
    /\ UNCHANGED <<uploadRetries, buildSh, connBroken, shAtStart, errCount, attempts,
                   attemptLog, sleeps>>
    /\ UNCHANGED <<shAtCall, uploadOpen>>
    /\ UNCHANGED <<ctxErr, nonUploadVars>>

\* case <-ctx.Done()
UploadSelectCtx ==
    /\ uploadPC = "select"
    /\ CtxDone
    /\ uploadRet' = ctxErr
    /\ uploadPC' = "returned"
    /\ UNCHANGED <<uploadRetries, buildSh, uploaderPC, connBroken, shAtStart, errCount,
                   attempts, attemptLog, sleeps>>
    /\ UNCHANGED <<shAtCall, uploadOpen>>
    /\ UNCHANGED <<ctxErr, nonUploadVars>>

UploaderStep ==
    \/ UploaderTop
    \/ AttemptSSH
    \/ AttemptSFTP
    \/ AttemptLstat
    \/ AttemptCreate
    \/ AttemptWrite
    \/ UploaderWake

\* The state in which no Start call is in progress.
StartIdle ==
    /\ ctxBeforeDone = FALSE
    /\ instanceGroup = FALSE
    /\ startPC = "idle"
    /\ abandonedStart = FALSE
    /\ insertOK = FALSE
    /\ refreshed = FALSE
    /\ ops = [o \in Pollers |-> NoOp]
    /\ pollPC = [p \in Pollers |-> "none"]
    /\ pollObs = [p \in Pollers |-> "none"]
    /\ startRet = NoRet
    /\ deleteCalls = 0
    /\ insertCalls = 0
    /\ addCalls = 0
    /\ bootTimer = 0
    /\ bootTimeout = 0

\* An instance handle at the call of UploadScript: any UPLOAD_RETRIES up to the
\* bound, on a fresh guest or on one that holds an earlier build.sh.
UploadInit ==
    /\ ctxErr = "nil"
    /\ ResolverIdle
    /\ StartIdle
    /\ RunIdle
    /\ StopIdle
    /\ ProviderIdle
    /\ uploadRetries \in 0..MaxRetries
    /\ buildSh \in {"absent", "prior"}
    /\ uploadPC = "call"
    /\ uploaderPC = "none"
    /\ connBroken = FALSE
    /\ shAtStart = "none"
    /\ errCount = 0
    /\ attempts = 0
    /\ attemptLog = <<>>
    /\ sleeps = 0
    /\ uploadRet = "none"
    /\ shAtCall = "none"
    /\ uploadOpen = {}

UploadNext ==
    \/ CtxFire
    \/ UploadCall
    \/ UploaderStep
    \/ UploadSelectRecv
    \/ UploadSelectCtx

UploadSpec == UploadInit /\ [][UploadNext]_vars

(***************************************************************************)
(* Properties of UploadScript.                                             *)
(***************************************************************************)

UploadReturned == uploadPC = "returned"

Transient == {"sshErr", "sftpErr", "createErr", "writeErr"}

LastResult == attemptLog[Len(attemptLog)]

\* C7. ErrStaleVM is not retried: after an attempt that returned ErrStaleVM
\* the uploader starts no further attempt and does not sleep.
C7_StaleNotRetried ==
    /\ \A i \in 1..Len(attemptLog) : attemptLog[i] = "ErrStaleVM" => attempts = i
    /\ (Len(attemptLog) > 0 /\ LastResult = "ErrStaleVM") => uploaderPC # "sleep"

CreateFailsBefore(n) == \A i \in 1..(n - 1) : attemptLog[i] = "createErr"

C11_UploaderTerminates ==
    (UploadReturned /\ CtxDone /\ uploadRet = ctxErr)
        => (uploaderPC = "done" \/ ENABLED UploaderStep)


\* C26: UploadScript returns ErrStaleVM only if build.sh was on the guest when
\* the call started.
C26_StaleOnlyIfPreexisting ==
    (UploadReturned /\ uploadRet = "ErrStaleVM") => shAtCall = "prior"

\* C27: whatever the attempts return and whenever the context fires, no more
\* than UPLOAD_RETRIES + 1 upload attempts are started.
C27_AttemptBound == attempts <= uploadRetries + 1

\* UPLOAD_RETRIES + 1 attempts were made, stale-VM and transient errors among
\* their results, and the context fired during the last one.
C27_Witness ==
    /\ uploadRetries = 2
    /\ attempts = 3
    /\ attemptLog = <<"createErr", "writeErr", "ErrStaleVM">>
    /\ CtxDone
    /\ uploaderPC = "send"

\* C28: no upload attempt starts in a state where the context is done.
C28_NoAttemptAfterDone ==
    [][attempts' > attempts => ~CtxDone]_vars

\* UploadScript was called with a context already done: the uploader has left
\* its loop without an attempt and the call has returned ctx.Err().
C28_Witness ==
    /\ CtxDone
    /\ UploadReturned
    /\ uploadRet = ctxErr
    /\ uploaderPC = "done"
    /\ attempts = 0

\* C29: once UploadScript has returned ctx.Err(), build.sh is neither created
\* nor written.
C29_NoWriteAfterReturn ==
    [][(UploadReturned /\ CtxDone /\ uploadRet = ctxErr) => buildSh' = buildSh]_vars

(***************************************************************************)
(* gceInstance.RunScript and the remote command it runs.                   *)
(***************************************************************************)

\* The largest exit status the model lets the remote command report.
MaxExitStatus == 258

\* uint8(...): the number of values of RunResult.ExitCode.
ByteRange == 256

\* RunResult.ExitCode for a typed remote-exit error: uint8(err.ExitStatus()).
ExitCodeRaw(status) == status

ExitCodeOf(status) == status % ByteRange

\* How session.Run returns: nil, *ssh.ExitError, or any other error.
RunOutcome ==
    IF remote = "exited"
    THEN (IF exitStatus = 0 THEN "nil" ELSE "exitErr")
    ELSE "otherErr"

\* The switch on session.Run's error: which outcomes give Completed: true.
RunCompletedNilOnly(outcome) == outcome = "nil"

RunCompleted(outcome) == outcome \in {"nil", "exitErr"}

\* An error return before or instead of the command's completion.
RunFails(e) ==
    /\ runRet' = [completed |-> FALSE, exitCode |-> 0, err |-> e]
    /\ runPC' = "returned"
    /\ runOpen' = CloseDeferred(runOpen)

\* client, err := i.sshClient(): refreshInstance, getIP, ssh.Dial.
RunSSH ==
    /\ runPC = "ssh"
    /\ \/ /\ runPC' = "session"
          /\ runOpen' = runOpen \cup {"ssh"}
          /\ UNCHANGED runRet
       \/ \E e \in {"refreshErr", "noIPErr", "dialErr"} : RunFails(e)
    /\ UNCHANGED <<remote, exitStatus>>
    /\ UNCHANGED <<ctxErr, nonRunVars>>

\* session, err := client.NewSession()
RunNewSession ==
    /\ runPC = "session"
    /\ \/ /\ runPC' = "pty"
          /\ runOpen' = runOpen \cup {"session"}
          /\ UNCHANGED runRet
       \/ RunFails("sessionErr")
    /\ UNCHANGED <<remote, exitStatus>>
    /\ UNCHANGED <<ctxErr, nonRunVars>>

\* session.RequestPty("xterm", 80, 40, ...), then session.Run starts the
\* command or fails to.
RunRequestPty ==
    /\ runPC = "pty"
    /\ \/ /\ runPC' = "run"
          /\ remote' = "running"
          /\ UNCHANGED <<runRet, runOpen>>
       \/ /\ RunFails("ptyErr")
          /\ UNCHANGED remote
    /\ UNCHANGED exitStatus
    /\ UNCHANGED <<ctxErr, nonRunVars>>

\* The guest: bash ~/build.sh exits with a status.
RemoteExit ==
    /\ remote = "running"
    /\ remote' = "exited"
    /\ \E st \in 0..MaxExitStatus : exitStatus' = st
    /\ UNCHANGED <<runPC, runRet, runOpen>>
    /\ UNCHANGED <<ctxErr, nonRunVars>>

\* The connection is lost, or the command ends without an exit status.
RemoteLost ==
    /\ remote = "running"
    /\ remote' = "lost"
    /\ UNCHANGED <<runPC, exitStatus, runRet, runOpen>>
    /\ UNCHANGED <<ctxErr, nonRunVars>>

\* session.Run returns and RunScript maps its error to the RunResult.
RunWait ==
    /\ runPC = "run"
    /\ remote \in {"exited", "lost"}
    /\ runRet' = IF RunCompleted(RunOutcome)
                 THEN [completed |-> TRUE,
                       exitCode |-> (IF RunOutcome = "nil" THEN 0
                                     ELSE ExitCodeOf(exitStatus)),
                       err |-> "nil"]
                 ELSE [completed |-> FALSE, exitCode |-> 0, err |-> "runErr"]
    /\ runPC' = "returned"
    /\ runOpen' = CloseDeferred(runOpen)
    /\ UNCHANGED <<remote, exitStatus>>
    /\ UNCHANGED <<ctxErr, nonRunVars>>

\* The steps RunScript's own goroutine takes.
RunStep ==
    \/ RunSSH
    \/ RunNewSession
    \/ RunRequestPty
    \/ RunWait

\* An instance handle at the call of RunScript.
RunInit ==
    /\ ctxErr = "nil"
    /\ ResolverIdle
    /\ StartIdle
    /\ UploadIdle
    /\ StopIdle
    /\ ProviderIdle
    /\ runPC = "ssh"
    /\ remote = "none"
    /\ exitStatus = 0
    /\ runRet = NoRunRet
    /\ runOpen = {}

RunNext ==
    \/ CtxFire
    \/ RemoteExit
    \/ RemoteLost
    \/ RunStep

RunSpec == RunInit /\ [][RunNext]_vars

(***************************************************************************)
(* Properties of RunScript.                                                *)
(***************************************************************************)

RunReturned == runPC = "returned"

\* C12. RunScript races its result against ctx.Done(): when the context is
\* done while the remote command is still running, RunScript can return
\* without waiting for the command to finish.
C12_RunHonoursContext ==
    (runPC = "run" /\ remote = "running" /\ CtxDone) => ENABLED RunStep

\* The errors of the failures that are not the command's own exit.
RunFailures == {"refreshErr", "noIPErr", "dialErr", "sessionErr", "ptyErr", "runErr"}

\* Completed = true exactly when the command ran to completion, then with a
\* nil error; every other failure gives Completed = false and its error.
RunCompletionMapped ==
    /\ runRet.completed <=> remote = "exited"
    /\ runRet.completed => runRet.err = "nil"
    /\ ~runRet.completed => (runRet.err \in RunFailures /\ runRet.exitCode = 0)
    /\ runRet.err = "runErr" <=> remote = "lost"

\* C13 as stated: the result mapping, with ExitCode equal to the remote exit
\* status.
C13_ExitCodeIsStatus ==
    RunReturned =>
        /\ RunCompletionMapped
        /\ runRet.completed => runRet.exitCode = exitStatus

\* C13 as amended: the result mapping, with ExitCode equal to the remote exit
\* status modulo 256 (0 for nil).
C13_ResultMapping ==
    RunReturned =>
        /\ RunCompletionMapped
        /\ runRet.completed => runRet.exitCode = exitStatus % 256

C13_Witness ==
    /\ RunReturned
    /\ remote = "exited"
    /\ exitStatus = 7
    /\ runRet = [completed |-> TRUE, exitCode |-> 7, err |-> "nil"]



\* C34: for a typed remote-exit error RunScript reports Completed = true, a nil
\* error and the exit status reduced modulo 256: the ExitCode is a byte that
\* differs from the status by a multiple of 256, so a status up to 255 is
\* reported unchanged and a non-zero multiple of 256 is reported as 0.
C34_ExitCodeTruncated ==
    (RunReturned /\ RunOutcome = "exitErr") =>
        /\ runRet.completed
        /\ runRet.err = "nil"
        /\ runRet.exitCode \in 0..255
        /\ \E q \in 0..MaxExitStatus : exitStatus = q * 256 + runRet.exitCode
        /\ exitStatus <= 255 => runRet.exitCode = exitStatus
        /\ (\E q \in 1..MaxExitStatus : exitStatus = q * 256) => runRet.exitCode = 0

\* The remote command exited with status 256 and RunScript reported a completed
\* run with ExitCode 0.
C34_Witness ==
    /\ RunReturned
    /\ remote = "exited"
    /\ exitStatus = 256
    /\ runRet = [completed |-> TRUE, exitCode |-> 0, err |-> "nil"]

(***************************************************************************)
(* gceInstance.Stop: the Instances.Delete call, the goroutine that polls   *)
(* the delete operation and the select of the caller.                      *)
(***************************************************************************)

\* Where Stop's poller goes after a poll with that result: only a failed Get and
\* a DONE operation end the loop.
StopAfterPoll(obs) == IF obs \in {"GET_ERR", "DONE_ERR", "DONE"} THEN "send" ELSE "sleep"

\* The value Stop's poller sends on errChan.
StopSendNil(obs) == "nil"

StopSendVal(obs) ==
    CASE obs = "GET_ERR"  -> "transportErr"
      [] obs = "DONE_ERR" -> "opError"
      [] OTHER            -> "nil"

\* i.client.Instances.Delete(...).Do() and, when it succeeds, the go statement.
StopDelete ==
    /\ stopPC = "delete"
    /\ stopDeletes' = stopDeletes + 1
    /\ \/ /\ stopRet' = "deleteErr"
          /\ stopPC' = "returned"
          /\ UNCHANGED <<stopOp, stopPollPC>>
       \/ /\ stopOp' = NewOp
          /\ stopPollPC' = "poll"
          /\ stopPC' = "select"
          /\ UNCHANGED stopRet
    /\ UNCHANGED stopObs
    /\ UNCHANGED <<ctxErr, nonStopVars>>

\* The cloud works on the delete operation.
StopCloudAdvance ==
    /\ stopOp.status \in {"PENDING", "RUNNING"}
    /\ \E e \in BOOLEAN :
          stopOp' = [status |-> NextStatus(stopOp.status), err |-> stopOp.err \/ e]
    /\ UNCHANGED <<stopPC, stopPollPC, stopObs, stopRet, stopDeletes>>
    /\ UNCHANGED <<ctxErr, nonStopVars>>

\* One iteration of the polling loop up to its send or its sleep.
StopPoll ==
    /\ stopPollPC = "poll"
    /\ \E obs \in {"GET_ERR", Observe(stopOp)} :
          /\ stopObs' = obs
          /\ stopPollPC' = StopAfterPoll(obs)
    /\ UNCHANGED <<stopPC, stopOp, stopRet, stopDeletes>>
    /\ UNCHANGED <<ctxErr, nonStopVars>>

\* time.Sleep(i.provider.bootPollSleep) returns.
StopPollWake ==
    /\ stopPollPC = "sleep"
    /\ stopPollPC' = "poll"
    /\ UNCHANGED <<stopPC, stopOp, stopObs, stopRet, stopDeletes>>
    /\ UNCHANGED <<ctxErr, nonStopVars>>

\* case err := <-errChan: the poller's send meets the receive, both return.
StopSelectRecv ==
    /\ stopPC = "select"
    /\ stopPollPC = "send"
    /\ stopRet' = StopSendVal(stopObs)
    /\ stopPollPC' = "done"
    /\ stopPC' = "returned"
    /\ UNCHANGED <<stopOp, stopObs, stopDeletes>>
    /\ UNCHANGED <<ctxErr, nonStopVars>>

\* case <-ctx.Done(): return ctx.Err().
StopSelectCtx ==
    /\ stopPC = "select"
    /\ CtxDone
    /\ stopRet' = ctxErr
    /\ stopPC' = "returned"
    /\ UNCHANGED <<stopOp, stopPollPC, stopObs, stopDeletes>>
    /\ UNCHANGED <<ctxErr, nonStopVars>>

StopPollerStep == StopPoll \/ StopPollWake

StopStep == StopDelete \/ StopSelectRecv \/ StopSelectCtx

\* An instance handle at the call of Stop.
StopInit ==
    /\ ctxErr = "nil"
    /\ ResolverIdle
    /\ StartIdle
    /\ UploadIdle
    /\ RunIdle
    /\ ProviderIdle
    /\ stopPC = "delete"
    /\ stopOp = NoOp
    /\ stopPollPC = "none"
    /\ stopObs = "none"
    /\ stopRet = "none"
    /\ stopDeletes = 0

StopNext ==
    \/ CtxFire
    \/ StopCloudAdvance
    \/ StopPollerStep
    \/ StopStep

StopSpec == StopInit /\ [][StopNext]_vars

(***************************************************************************)
(* Properties of Stop.                                                     *)
(***************************************************************************)

StopReturned == stopPC = "returned"

StopResults == {"nil", "opError", "transportErr", "deleteErr", "Canceled", "DeadlineExceeded"}

\* C14: Stop issues Instances.Delete first and polls only the operation of a
\* successful Delete; a failed Delete is returned with no poller started; Stop
\* returns nil only after a poll saw the operation DONE without Error, the
\* wrapped operation error only after a poll saw it DONE with Error, the
\* transport error only after a failed poll, and otherwise ctx.Err() of a done
\* context.
C14_StopOutcome ==
    /\ stopPollPC # "none" => (stopDeletes = 1 /\ stopOp # NoOp)
    /\ StopReturned =>
          /\ stopDeletes = 1
          /\ stopRet \in StopResults
          /\ stopRet = "nil" =>
                (stopObs = "DONE" /\ stopOp = [status |-> "DONE", err |-> FALSE])
          /\ stopRet = "opError" =>
                (stopObs = "DONE_ERR" /\ stopOp = [status |-> "DONE", err |-> TRUE])
          /\ stopRet = "transportErr" => stopObs = "GET_ERR"
          /\ stopRet \in {"Canceled", "DeadlineExceeded"} =>
                (stopRet = ctxErr /\ stopOp # NoOp)
          /\ stopRet = "deleteErr" <=> stopOp = NoOp
          /\ stopRet = "deleteErr" => stopPollPC = "none"

\* Stop has returned the wrapped error of a delete operation that ended DONE with
\* an Error payload.
C14_Witness ==
    /\ StopReturned
    /\ stopRet = "opError"
    /\ stopObs = "DONE_ERR"
    /\ stopDeletes = 1
    /\ stopPollPC = "done"



\* C32: after Stop has returned, with nil, an error or ctx.Err(), its poller
\* terminates: it was never started, it has exited, or it can still take a step
\* of its own; it is never left blocked on a send that nobody receives.
C32_StopPollerTerminates ==
    StopReturned => (stopPollPC \in {"none", "done"} \/ ENABLED StopPollerStep)

(***************************************************************************)
(* newGCEProvider: the provider built from a ProviderConfig, and the       *)
(* dispatch of getImage on the selector type the provider holds.           *)
(***************************************************************************)

\* Most required options a drawn config lacks.
MaxMissing == 1

defaultGCEDiskSize == 20

\* defaultGCEBootPollSleep and defaultGCEUploadRetrySleep, in seconds.
defaultGCEBootPollSleep == 3

defaultGCEUploadRetries == 10

defaultGCEUploadRetrySleep == 5

defaultGCEHardTimeoutMinutes == 130

defaultGCEZone == "us-central1-a"

defaultGCEMachineType == "n1-standard-2"

defaultGCENetwork == "default"

defaultGCELanguage == "minimal"

defaultGCEImageSelectorType == "legacy"

defaultGCEImage == "travis-ci-mega.+"

\* The options newGCEProvider refuses to go without, in the order it checks them.
Required ==
    {"ACCOUNT_JSON", "PROJECT_ID", "SSH_KEY_PATH", "SSH_PUB_KEY_PATH",
     "SSH_KEY_PASSPHRASE"}

\* cfg.IsSet, cfg.Get and cfg.Set on the mapping.
IsSet(c, k) == k \in DOMAIN c

Get(c, k) == IF k \in DOMAIN c THEN c[k] ELSE ""

CfgSet(c, k, v) == [x \in (DOMAIN c) \cup {k} |-> IF x = k THEN v ELSE c[x]]

\* The result of a failed parse.
NoParse == [ok |-> FALSE, val |-> 0]

\* strconv.ParseInt(s, 10, 64) on the strings the configs hold.
ParseInt(s) ==
    CASE s = "50" -> [ok |-> TRUE, val |-> 50]
      [] s = "60" -> [ok |-> TRUE, val |-> 60]
      [] s = "2"  -> [ok |-> TRUE, val |-> 2]
      [] s = "3"  -> [ok |-> TRUE, val |-> 3]
      [] s = "-1" -> [ok |-> TRUE, val |-> -1]
      [] OTHER    -> NoParse

\* strconv.ParseUint(s, 10, 64): no sign is accepted.
ParseUint(s) ==
    IF ParseInt(s).ok /\ ParseInt(s).val >= 0 THEN ParseInt(s) ELSE NoParse

\* time.ParseDuration(s), in seconds: a number without a unit is an error.
ParseDuration(s) ==
    CASE s = "7s" -> [ok |-> TRUE, val |-> 7]
      [] s = "5s" -> [ok |-> TRUE, val |-> 5]
      [] OTHER    -> NoParse

\* strconv.ParseBool(s).
ParseBool(s) ==
    CASE s \in {"1", "t", "T", "TRUE", "true", "True"}    -> [ok |-> TRUE, val |-> TRUE]
      [] s \in {"0", "f", "F", "FALSE", "false", "False"} -> [ok |-> TRUE, val |-> FALSE]
      [] OTHER -> [ok |-> FALSE, val |-> FALSE]

\* if cfg.IsSet(k) { v, err := parse(cfg.Get(k)); if err != nil { return nil, err } }
BadValueIgnored(set, ok) == FALSE

BadValue(set, ok) == set /\ ~ok

\* The value a typed option resolves to: the parsed one if set, else the default.
Resolved(set, parsed, default) == IF set /\ parsed.ok THEN parsed.val ELSE default

\* buildGCEImageSelector: the resolver for a selector type, "unset" for nil.
BuildSelector(t) ==
    CASE t = "env" -> "envSelector"
      [] t = "api" -> "apiSelector"
      [] OTHER     -> "unset"

ValidSelectorTypes == {"legacy", "env", "api"}

\* switch p.imageSelectorType of getImage.
GetImageDispatchAll(t) == "imageSelect"

GetImageDispatch(t) == IF t \in {"env", "api"} THEN "imageSelect" ELSE "legacyImageSelect"

\* What the environment can refuse while the provider is built: the account
\* JSON, the compute service, the key files, the PEM block, its decryption, the
\* PKCS#1 parse, the signer, the image selector.
EnvFailures ==
    {"accountJSON", "computeService", "readKey", "readPubKey", "pem", "decrypt",
     "pkcs1", "signer", "selector"}

\* return nil, err
Failed(c, e) == [cfg |-> c, err |-> e, provider |-> NoProvider]

\* cfg.Set("ZONE", ...), cfg.Set("MACHINE_TYPE", ...), cfg.Set("NETWORK", ...).
WriteBackNone(c) == c

WriteBack(c) ==
    LET c1 == CfgSet(c, "ZONE",
                     IF IsSet(c, "ZONE") THEN Get(c, "ZONE") ELSE defaultGCEZone)
        c2 == CfgSet(c1, "MACHINE_TYPE",
                     IF IsSet(c1, "MACHINE_TYPE") THEN Get(c1, "MACHINE_TYPE")
                     ELSE defaultGCEMachineType)
    IN  CfgSet(c2, "NETWORK",
               IF IsSet(c2, "NETWORK") THEN Get(c2, "NETWORK") ELSE defaultGCENetwork)

\* The second half of newGCEProvider: the typed options, the selector, the
\* provider.
ResolveOptions(c, fail) ==
    LET bps == ParseDuration(Get(c, "BOOT_POLL_SLEEP"))
        ur  == ParseUint(Get(c, "UPLOAD_RETRIES"))
        urs == ParseDuration(Get(c, "UPLOAD_RETRY_SLEEP"))
        ai  == ParseBool(Get(c, "AUTO_IMPLODE"))
        ht  == ParseInt(Get(c, "HARD_TIMEOUT_MINUTES"))
        imageSelectorType ==
            IF IsSet(c, "IMAGE_SELECTOR_TYPE") THEN Get(c, "IMAGE_SELECTOR_TYPE")
            ELSE defaultGCEImageSelectorType
    IN  IF BadValue(IsSet(c, "BOOT_POLL_SLEEP"), bps.ok)
            THEN Failed(c, "bootPollSleepErr")
        ELSE IF BadValue(IsSet(c, "UPLOAD_RETRIES"), ur.ok)
            THEN Failed(c, "uploadRetriesErr")
        ELSE IF BadValue(IsSet(c, "UPLOAD_RETRY_SLEEP"), urs.ok)
            THEN Failed(c, "uploadRetrySleepErr")
        ELSE IF BadValue(IsSet(c, "AUTO_IMPLODE"), ai.ok)
            THEN Failed(c, "autoImplodeErr")
        ELSE IF BadValue(IsSet(c, "HARD_TIMEOUT_MINUTES"), ht.ok)
            THEN Failed(c, "hardTimeoutErr")
        ELSE IF imageSelectorType \notin ValidSelectorTypes
            THEN Failed(c, "invalid image selector type")
        ELSE IF imageSelectorType \in {"env", "api"} /\ fail = "selector"
            THEN Failed(c, "selectorErr")
        ELSE [cfg |-> c,
              err |-> "nil",
              provider |->
                 [built |-> TRUE,
                  diskSize |-> Resolved(IsSet(c, "DISK_SIZE"),
                                        ParseInt(Get(c, "DISK_SIZE")),
                                        defaultGCEDiskSize),
                  bootPollSleep |-> Resolved(IsSet(c, "BOOT_POLL_SLEEP"), bps,
                                             defaultGCEBootPollSleep),
                  uploadRetries |-> Resolved(IsSet(c, "UPLOAD_RETRIES"), ur,
                                             defaultGCEUploadRetries),
                  uploadRetrySleep |-> Resolved(IsSet(c, "UPLOAD_RETRY_SLEEP"), urs,
                                                defaultGCEUploadRetrySleep),
                  defaultLanguage |->
                      IF IsSet(c, "DEFAULT_LANGUAGE") THEN Get(c, "DEFAULT_LANGUAGE")
                      ELSE defaultGCELanguage,
                  defaultImage |->
                      IF IsSet(c, "IMAGE_DEFAULT") THEN Get(c, "IMAGE_DEFAULT")
                      ELSE defaultGCEImage,
                  autoImplode |-> Resolved(IsSet(c, "AUTO_IMPLODE"), ai, TRUE),
                  hardTimeoutMinutes |-> Resolved(IsSet(c, "HARD_TIMEOUT_MINUTES"), ht,
                                                  defaultGCEHardTimeoutMinutes),
                  imageSelector |->
                      IF imageSelectorType \in {"env", "api"}
                      THEN BuildSelector(imageSelectorType) ELSE "unset",
                  imageSelectorType |-> imageSelectorType,
                  instanceGroup |-> Get(c, "INSTANCE_GROUP")]]

\* newGCEProvider from its first line: the client, the required options and the
\* SSH key, then the write-back and the rest.
Construct(c, fail) ==
    IF ~IsSet(c, "ACCOUNT_JSON") THEN Failed(c, "missing ACCOUNT_JSON")
    ELSE IF fail \in {"accountJSON", "computeService"} THEN Failed(c, "clientErr")
    ELSE IF ~IsSet(c, "PROJECT_ID") THEN Failed(c, "missing PROJECT_ID")
    ELSE IF ~IsSet(c, "SSH_KEY_PATH") THEN Failed(c, "missing SSH_KEY_PATH")
    ELSE IF fail = "readKey" THEN Failed(c, "readKeyErr")
    ELSE IF ~IsSet(c, "SSH_PUB_KEY_PATH") THEN Failed(c, "missing SSH_PUB_KEY_PATH")
    ELSE IF fail = "readPubKey" THEN Failed(c, "readPubKeyErr")
    ELSE IF fail = "pem" THEN Failed(c, "no PEM block")
    ELSE IF ~IsSet(c, "SSH_KEY_PASSPHRASE") THEN Failed(c, "missing SSH_KEY_PASSPHRASE")
    ELSE IF fail \in {"decrypt", "pkcs1", "signer"} THEN Failed(c, "keyErr")
    ELSE ResolveOptions(WriteBack(c), fail)

\* One call of newGCEProvider.
NewGCEProvider ==
    /\ npPC = "call"
    /\ \E fail \in EnvFailures \cup {"none"} :
          /\ cfg' = Construct(cfg, fail).cfg
          /\ newErr' = Construct(cfg, fail).err
          /\ provider' = Construct(cfg, fail).provider
    /\ npPC' = "returned"
    /\ UNCHANGED <<cfgAtCall, imagePath, setupAsked, setupRet>>
    /\ UNCHANGED <<ctxErr, nonProviderVars>>

\* getImage of a Start call on the provider built.
GetImage ==
    /\ npPC = "returned"
    /\ provider.built
    /\ imagePath = "none"
    /\ imagePath' = GetImageDispatch(provider.imageSelectorType)
    /\ UNCHANGED <<cfg, cfgAtCall, npPC, provider, newErr, setupAsked, setupRet>>
    /\ UNCHANGED <<ctxErr, nonProviderVars>>

\* The lookups Setup makes before it returns with that result: Zones.Get, then
\* MachineTypes.Get, then Networks.Get, each by the name the mapping holds.
SetupLookups(c, ret) ==
    [zone |-> Get(c, "ZONE"),
     machineType |-> IF ret = "zoneErr" THEN "none" ELSE Get(c, "MACHINE_TYPE"),
     network |-> IF ret \in {"zoneErr", "machineTypeErr"} THEN "none"
                 ELSE Get(c, "NETWORK")]

\* One call of Setup on the provider built.
Setup ==
    /\ npPC = "returned"
    /\ provider.built
    /\ setupRet = "none"
    /\ \E ret \in {"nil", "zoneErr", "machineTypeErr", "networkErr"} :
          /\ setupRet' = ret
          /\ setupAsked' = SetupLookups(cfg, ret)
    /\ UNCHANGED <<cfg, cfgAtCall, npPC, provider, newErr, imagePath>>
    /\ UNCHANGED <<ctxErr, nonProviderVars>>

\* The option is left out of the mapping.
Absent == "<absent>"

\* The mapping holding the options of r that are not Absent.
MkCfg(r) == [k \in {x \in DOMAIN r : r[x] # Absent} |-> r[k]]

\* A config with at most MaxMissing required options missing, every typed option
\* unset, well-formed or malformed, any selector type, and ZONE, MACHINE_TYPE and
\* NETWORK set or not.
ProviderInit ==
    /\ ctxErr = "nil"
    /\ ResolverIdle
    /\ StartIdle
    /\ UploadIdle
    /\ RunIdle
    /\ StopIdle
    /\ \E missing \in {m \in SUBSET Required : Cardinality(m) <= MaxMissing},
          ds   \in {Absent, "50", "50GB"},
          bps  \in {Absent, "7s", "3"},
          ur   \in {Absent, "2", "-1"},
          urs  \in {Absent, "7s", "3"},
          ai   \in {Absent, "false", "yes"},
          ht   \in {Absent, "60", "5s"},
          ist  \in {Absent, "legacy", "env", "api", "docker"},
          zone \in {Absent, "europe-west1-b"},
          mt   \in {Absent, "n1-standard-4"},
          nw   \in {Absent, "builds"} :
             cfg = MkCfg([ACCOUNT_JSON |-> IF "ACCOUNT_JSON" \in missing THEN Absent ELSE "{}",
                          PROJECT_ID |-> IF "PROJECT_ID" \in missing THEN Absent ELSE "project",
                          SSH_KEY_PATH |-> IF "SSH_KEY_PATH" \in missing THEN Absent ELSE "id_rsa",
                          SSH_PUB_KEY_PATH |->
                              IF "SSH_PUB_KEY_PATH" \in missing THEN Absent ELSE "id_rsa.pub",
                          SSH_KEY_PASSPHRASE |->
                              IF "SSH_KEY_PASSPHRASE" \in missing THEN Absent ELSE "secret",
                          DISK_SIZE |-> ds,
                          BOOT_POLL_SLEEP |-> bps,
                          UPLOAD_RETRIES |-> ur,
                          UPLOAD_RETRY_SLEEP |-> urs,
                          AUTO_IMPLODE |-> ai,
                          HARD_TIMEOUT_MINUTES |-> ht,
                          IMAGE_SELECTOR_TYPE |-> ist,
                          ZONE |-> zone,
                          MACHINE_TYPE |-> mt,
                          NETWORK |-> nw])
    /\ cfgAtCall = cfg
    /\ npPC = "call"
    /\ provider = NoProvider
    /\ newErr = "none"
    /\ imagePath = "none"
    /\ setupAsked = NoSetup
    /\ setupRet = "none"

ProviderNext == NewGCEProvider \/ GetImage \/ Setup

ProviderSpec == ProviderInit /\ [][ProviderNext]_vars


(***************************************************************************)
(* Properties of newGCEProvider.                                           *)
(***************************************************************************)

NewReturned == npPC = "returned"

\* The option was set in the config newGCEProvider received.
WasSet(k) == IsSet(cfgAtCall, k)

Given(k) == Get(cfgAtCall, k)

\* The strings strconv.ParseBool accepts.
BoolStrings ==
    {"1", "t", "T", "TRUE", "true", "True", "0", "f", "F", "FALSE", "false", "False"}

\* C19: no provider is returned when a required option is missing or when a set
\* BOOT_POLL_SLEEP, UPLOAD_RETRIES, UPLOAD_RETRY_SLEEP, AUTO_IMPLODE or
\* HARD_TIMEOUT_MINUTES does not parse as its type; a DISK_SIZE that does not
\* parse is no failure and the provider built has disk size 20.
C19_ParseFailuresFatal ==
    NewReturned =>
       /\ provider.built <=> newErr = "nil"
       /\ (\E k \in Required : ~WasSet(k)) => ~provider.built
       /\ (WasSet("BOOT_POLL_SLEEP") /\ Given("BOOT_POLL_SLEEP") \notin {"7s", "5s"})
             => ~provider.built
       /\ (WasSet("UPLOAD_RETRIES") /\ Given("UPLOAD_RETRIES") \notin {"2", "3", "50", "60"})
             => ~provider.built
       /\ (WasSet("UPLOAD_RETRY_SLEEP") /\ Given("UPLOAD_RETRY_SLEEP") \notin {"7s", "5s"})
             => ~provider.built
       /\ (WasSet("AUTO_IMPLODE") /\ Given("AUTO_IMPLODE") \notin BoolStrings)
             => ~provider.built
       /\ (WasSet("HARD_TIMEOUT_MINUTES")
              /\ Given("HARD_TIMEOUT_MINUTES") \notin {"2", "3", "50", "60", "-1"})
             => ~provider.built
       /\ (provider.built /\ WasSet("DISK_SIZE") /\ Given("DISK_SIZE") = "50GB")
             => provider.diskSize = 20
       /\ (provider.built /\ ~WasSet("DISK_SIZE")) => provider.diskSize = 20
       /\ (provider.built /\ Given("DISK_SIZE") = "50") => provider.diskSize = 50

\* A provider was built from a config whose DISK_SIZE does not parse, with the
\* default size, the other typed options set and well-formed.
C19_Witness ==
    /\ NewReturned
    /\ provider.built
    /\ Given("DISK_SIZE") = "50GB"
    /\ provider.diskSize = 20
    /\ Given("BOOT_POLL_SLEEP") = "7s"
    /\ provider.bootPollSleep = 7
    /\ Given("UPLOAD_RETRIES") = "2"
    /\ provider.uploadRetries = 2

\* The selector type newGCEProvider was asked for.
AskedSelectorType ==
    IF WasSet("IMAGE_SELECTOR_TYPE") THEN Given("IMAGE_SELECTOR_TYPE") ELSE "legacy"

\* C20: a provider is built only for a selector type among legacy, env and api;
\* it holds a resolver exactly when the type is env or api; getImage goes to the
\* selector-based resolution for env and api and to the legacy one for legacy,
\* so it never uses an unset resolver.
C20_SelectorDispatch ==
    (NewReturned /\ provider.built) =>
       /\ AskedSelectorType \in {"legacy", "env", "api"}
       /\ provider.imageSelectorType = AskedSelectorType
       /\ provider.imageSelector # "unset" <=> AskedSelectorType \in {"env", "api"}
       /\ imagePath \in {"none", "imageSelect", "legacyImageSelect"}
       /\ imagePath # "none" =>
             /\ imagePath = "imageSelect" <=> AskedSelectorType \in {"env", "api"}
             /\ imagePath = "legacyImageSelect" <=> AskedSelectorType = "legacy"
       /\ imagePath = "imageSelect" => provider.imageSelector # "unset"

\* A provider built without IMAGE_SELECTOR_TYPE holds no resolver and its
\* getImage went to the legacy resolution.
C20_Witness ==
    /\ NewReturned
    /\ provider.built
    /\ ~WasSet("IMAGE_SELECTOR_TYPE")
    /\ provider.imageSelector = "unset"
    /\ imagePath = "legacyImageSelect"


\* The value an option with a default resolves to for the config received.
ValueOrDefault(k, default) == IF WasSet(k) THEN Given(k) ELSE default

\* C21: after a successful construction the mapping holds, for ZONE, MACHINE_TYPE
\* and NETWORK, the value configured before the call or else the default
\* us-central1-a, n1-standard-2, default; and every lookup Setup makes asks for
\* exactly that value.
C21_WriteBack ==
    (NewReturned /\ provider.built) =>
       /\ IsSet(cfg, "ZONE") /\ IsSet(cfg, "MACHINE_TYPE") /\ IsSet(cfg, "NETWORK")
       /\ Get(cfg, "ZONE") = ValueOrDefault("ZONE", "us-central1-a")
       /\ Get(cfg, "MACHINE_TYPE") = ValueOrDefault("MACHINE_TYPE", "n1-standard-2")
       /\ Get(cfg, "NETWORK") = ValueOrDefault("NETWORK", "default")
       /\ setupRet # "none" =>
             /\ setupAsked.zone = ValueOrDefault("ZONE", "us-central1-a")
             /\ setupAsked.machineType
                   \in {"none", ValueOrDefault("MACHINE_TYPE", "n1-standard-2")}
             /\ setupAsked.network \in {"none", ValueOrDefault("NETWORK", "default")}
       /\ setupRet = "nil" =>
             setupAsked = [zone |-> ValueOrDefault("ZONE", "us-central1-a"),
                           machineType |-> ValueOrDefault("MACHINE_TYPE", "n1-standard-2"),
                           network |-> ValueOrDefault("NETWORK", "default")]

\* Setup has succeeded on a provider built from a config with ZONE set and
\* MACHINE_TYPE and NETWORK unset.
C21_Witness ==
    /\ NewReturned
    /\ provider.built
    /\ setupRet = "nil"
    /\ Given("ZONE") = "europe-west1-b"
    /\ ~WasSet("MACHINE_TYPE")
    /\ ~WasSet("NETWORK")
    /\ setupAsked = [zone |-> "europe-west1-b", machineType |-> "n1-standard-2",
                     network |-> "default"]



\* C35: a failed construction leaves ZONE, MACHINE_TYPE and NETWORK of the config
\* mapping as they were before the call, in presence and in value.
C35_FailedLeavesCfg ==
    (NewReturned /\ ~provider.built) =>
        \A k \in {"ZONE", "MACHINE_TYPE", "NETWORK"} :
            /\ IsSet(cfg, k) <=> WasSet(k)
            /\ Get(cfg, k) = Given(k)

(***************************************************************************)
(* gceProvider.legacyImageSelect: the candidate languages and the image    *)
(* query made for each, on a provider built by newGCEProvider.             *)
(***************************************************************************)

\* strings.ToUpper on the languages the jobs name.
ToUpper(str) ==
    CASE str = "ruby"  -> "RUBY"
      [] str = "Ruby"  -> "RUBY"
      [] str = "ocaml" -> "OCAML"
      [] OTHER         -> str

\* fmt.Sprintf("LANGUAGE_MAP_%s", strings.ToUpper(startAttributes.Language))
MappedLang(lang) == "LANGUAGE_MAP_" \o ToUpper(lang)

\* The first candidate: the mapped language if the mapping has one, else the
\* language of the job.
FirstCandidateRaw(c, lang) == lang

FirstCandidate(c, lang) ==
    IF IsSet(c, MappedLang(lang)) THEN Get(c, MappedLang(lang)) ELSE lang

\* candidateLangs
CandidateLangs(c, lang, defaultLanguage) == <<FirstCandidate(c, lang), defaultLanguage>>

\* fmt.Sprintf(gceImageTravisCIPrefixFilter, language)
LanguageFilter(lang) == "name eq ^travis-ci-" \o lang \o ".+"

\* p.imageForLanguage(language): the query fails, finds nothing or finds images.
QueryOutcome(lang, listFails) ==
    IF listFails THEN "listErr"
    ELSE IF lang \in imaged THEN "found" ELSE "noImage"

\* The query made for a candidate.
Query(lang, listFails) == [lang |-> lang, outcome |-> QueryOutcome(lang, listFails)]

\* What legacyImageSelect returns after that query was its last.
ImageResult(q) ==
    IF q.outcome = "found"
    THEN [image |-> LanguageFilter(q.lang), err |-> NilErr]
    ELSE [image |-> "nil", err |-> [kind |-> q.outcome, filter |-> LanguageFilter(q.lang)]]

\* One call of legacyImageSelect: the loop over candidateLangs stops at the
\* first query without error.
LegacyImageSelect ==
    /\ lisPC = "call"
    /\ \E fails \in [1..2 -> BOOLEAN] :
          LET cands == CandidateLangs(cfg, language, provider.defaultLanguage)
              q1 == Query(cands[1], fails[1])
              q2 == Query(cands[2], fails[2])
          IN  IF q1.outcome = "found"
              THEN /\ queries' = <<q1>>
                   /\ lisRet' = ImageResult(q1)
              ELSE /\ queries' = <<q1, q2>>
                   /\ lisRet' = ImageResult(q2)
    /\ lisPC' = "returned"
    /\ UNCHANGED <<language, imaged>>
    /\ UNCHANGED <<ctxErr, instanceVars, providerVars, filterVars, ipVars>>

\* The languages the image catalog may hold images for.
Languages == {"ruby", "Ruby", "ocaml", "python", "perl", "minimal", "generic"}

\* A provider built from a config with or without DEFAULT_LANGUAGE and language
\* mappings, a job naming a language, and any image catalog.
LegacyInit ==
    /\ ctxErr = "nil"
    /\ StartIdle
    /\ UploadIdle
    /\ RunIdle
    /\ StopIdle
    /\ FilterIdle
    /\ IPIdle
    /\ \E dl \in {Absent, "generic"},
          mapUpper \in {Absent, "python"},
          mapLower \in {Absent, "perl"} :
             /\ cfgAtCall = MkCfg([ACCOUNT_JSON |-> "{}",
                                   PROJECT_ID |-> "project",
                                   SSH_KEY_PATH |-> "id_rsa",
                                   SSH_PUB_KEY_PATH |-> "id_rsa.pub",
                                   SSH_KEY_PASSPHRASE |-> "secret",
                                   DEFAULT_LANGUAGE |-> dl,
                                   LANGUAGE_MAP_RUBY |-> mapUpper,
                                   LANGUAGE_MAP_ruby |-> mapLower])
             /\ cfg = Construct(cfgAtCall, "none").cfg
             /\ provider = Construct(cfgAtCall, "none").provider
             /\ newErr = Construct(cfgAtCall, "none").err
    /\ npPC = "returned"
    /\ imagePath = "legacyImageSelect"
    /\ setupAsked = NoSetup
    /\ setupRet = "none"
    /\ language \in {"ruby", "Ruby", "ocaml"}
    /\ imaged \in SUBSET Languages
    /\ queries = <<>>
    /\ lisPC = "call"
    /\ lisRet = NoImageRet

LegacyNext == LegacyImageSelect

LegacySpec == LegacyInit /\ [][LegacyNext]_vars

(***************************************************************************)
(* Properties of legacyImageSelect.                                        *)
(***************************************************************************)

LegacyReturned == lisPC = "returned"

\* The language a mapping names for the job's language, "" without a mapping.
MappingFor(lang) ==
    IF lang \in {"ruby", "Ruby"} /\ IsSet(cfg, "LANGUAGE_MAP_RUBY")
    THEN Get(cfg, "LANGUAGE_MAP_RUBY")
    ELSE IF lang = "ocaml" /\ IsSet(cfg, "LANGUAGE_MAP_OCAML")
    THEN Get(cfg, "LANGUAGE_MAP_OCAML")
    ELSE ""

\* DEFAULT_LANGUAGE as configured, minimal by default.
DefaultLanguageOption == ValueOrDefault("DEFAULT_LANGUAGE", "minimal")

\* C22: legacy resolution queries the mapped language if LANGUAGE_MAP_{UPPER(lang)}
\* is set and the raw language otherwise, then DEFAULT_LANGUAGE, and nothing
\* else; the first query that finds an image ends the search with that image,
\* and when neither does the error of the last query is returned.
C22_LegacyCandidates ==
    LegacyReturned =>
       /\ Len(queries) \in {1, 2}
       /\ queries[1].lang =
             (IF MappingFor(language) # "" THEN MappingFor(language) ELSE language)
       /\ Len(queries) = 2 =>
             (queries[2].lang = DefaultLanguageOption /\ queries[1].outcome # "found")
       /\ Len(queries) = 1 => queries[1].outcome = "found"
       /\ \A i \in 1..Len(queries) :
             /\ queries[i].outcome = "found" => queries[i].lang \in imaged
             /\ queries[i].outcome = "noImage" => queries[i].lang \notin imaged
       /\ queries[Len(queries)].outcome = "found" =>
             lisRet = [image |-> LanguageFilter(queries[Len(queries)].lang), err |-> NilErr]
       /\ queries[Len(queries)].outcome # "found" =>
             /\ Len(queries) = 2
             /\ lisRet.image = "nil"
             /\ lisRet.err = [kind |-> queries[2].outcome,
                              filter |-> LanguageFilter(queries[2].lang)]

\* A job for Ruby on a provider with LANGUAGE_MAP_RUBY = python: python had no
\* image, the raw language was not queried although it has images, and the
\* default language's image was returned.
C22_Witness ==
    /\ LegacyReturned
    /\ language = "Ruby"
    /\ Get(cfg, "LANGUAGE_MAP_RUBY") = "python"
    /\ "Ruby" \in imaged
    /\ queries = <<[lang |-> "python", outcome |-> "noImage"],
                   [lang |-> "minimal", outcome |-> "found"]>>
    /\ lisRet = [image |-> "name eq ^travis-ci-minimal.+", err |-> NilErr]


(***************************************************************************)
(* gceProvider.imageByFilter: the newest image among those a filter        *)
(* matches.  An image name is the sequence of its characters.              *)
(***************************************************************************)

\* Longest image name and longest Images.List answer drawn.
MaxNameLen == 2

MaxItems == 3

\* The characters of the names drawn, in byte order.
Chars == {1, 2}

Names == UNION {[1..n -> Chars] : n \in 1..MaxNameLen}

RECURSIVE StrLess(_, _)
\* a < b on Go strings: byte by byte, a proper prefix first.
StrLess(a, b) ==
    IF b = <<>> THEN FALSE
    ELSE IF a = <<>> THEN TRUE
    ELSE IF Head(a) # Head(b) THEN Head(a) < Head(b)
    ELSE StrLess(Tail(a), Tail(b))

RECURSIVE InsertSorted(_, _)
\* The sorted sequence with one more name in its place.
InsertSorted(x, sorted) ==
    IF sorted = <<>> THEN <<x>>
    ELSE IF StrLess(x, Head(sorted)) THEN <<x>> \o sorted
    ELSE <<Head(sorted)>> \o InsertSorted(x, Tail(sorted))

RECURSIVE SortStrings(_)
\* sort.Strings(imageNames)
SortStrings(names) ==
    IF names = <<>> THEN <<>>
    ELSE InsertSorted(Head(names), SortStrings(Tail(names)))

\* imageNames[len(imageNames)-1]
PickFirst(sorted) == sorted[1]

PickLast(sorted) == sorted[Len(sorted)]

\* One call of imageByFilter: the query, then the choice among its answer.
ImageByFilter ==
    /\ ibfPC = "call"
    /\ \/ ibfRet' = [image |-> <<>>, err |-> [kind |-> "listErr", filter |-> imgFilter]]
       \/ ibfRet' = IF Len(items) = 0
                    THEN [image |-> <<>>,
                          err |-> [kind |-> "noImage", filter |-> imgFilter]]
                    ELSE [image |-> PickLast(SortStrings(items)), err |-> NilErr]
    /\ ibfPC' = "returned"
    /\ UNCHANGED <<imgFilter, items>>
    /\ UNCHANGED <<ctxErr, instanceVars, providerVars, legacyVars, ipVars>>

\* A filter and any answer of Images.List to it.
FilterInit ==
    /\ ctxErr = "nil"
    /\ StartIdle
    /\ UploadIdle
    /\ RunIdle
    /\ StopIdle
    /\ ProviderIdle
    /\ LegacyIdle
    /\ IPIdle
    /\ imgFilter \in {LanguageFilter("go"), "name eq ^travis-ci-mega.+"}
    /\ items \in UNION {[1..n -> Names] : n \in 0..MaxItems}
    /\ ibfPC = "call"
    /\ ibfRet = NoFilterRet

FilterNext == ImageByFilter

FilterSpec == FilterInit /\ [][FilterNext]_vars

(***************************************************************************)
(* Properties of imageByFilter.                                            *)
(***************************************************************************)

FilterReturned == ibfPC = "returned"

\* a >= b in lexicographic order: b is a prefix of a, or a has the greater
\* character at the first position where they differ.
LexGreaterEq(a, b) ==
    \/ /\ Len(b) <= Len(a)
       /\ \A i \in 1..Len(b) : a[i] = b[i]
    \/ \E i \in 1..Len(a) :
          /\ i <= Len(b)
          /\ a[i] > b[i]
          /\ \A j \in 1..(i - 1) : a[j] = b[j]

\* C23: when the query succeeds, a non-empty answer gives the image whose name
\* is lexicographically greatest and no error, and an empty answer gives no
\* image and the error "no image found with filter {f}".
C23_GreatestName ==
    (FilterReturned /\ ibfRet.err.kind # "listErr") =>
       /\ Len(items) > 0 =>
             /\ ibfRet.err.kind = "nil"
             /\ \E i \in 1..Len(items) : ibfRet.image = items[i]
             /\ \A i \in 1..Len(items) : LexGreaterEq(ibfRet.image, items[i])
       /\ Len(items) = 0 =>
             ibfRet = [image |-> <<>>, err |-> [kind |-> "noImage", filter |-> imgFilter]]

\* Three images were returned, the greatest neither first nor last, and it
\* was chosen.
C23_Witness ==
    /\ FilterReturned
    /\ items = << <<1, 2>>, <<2, 1>>, <<2>> >>
    /\ ibfRet = [image |-> <<2, 1>>, err |-> NilErr]


(***************************************************************************)
(* gceInstance.sshClient and getIP: the refreshed instance's first NatIP   *)
(* and the dial to it.                                                     *)
(***************************************************************************)

\* Most network interfaces of an instance and access configs of an interface
\* drawn.
MaxNics == 2

MaxAccessConfigs == 2

\* The NatIP values an access config may hold.
NatIPs == {"", "1.2.3.4", "5.6.7.8"}

\* An interface: whether AccessConfigs is nil, and the NatIP of each access
\* config.
Interfaces ==
    {[isNil |-> TRUE, natIPs |-> <<>>]}
        \cup {[isNil |-> FALSE, natIPs |-> ips] :
                 ips \in UNION {[1..n -> NatIPs] : n \in 0..MaxAccessConfigs}}

\* The inner loop without its test.
AnyNatIP(acs) == IF acs = <<>> THEN "" ELSE Head(acs)

RECURSIVE FirstNatIP(_)
\* for _, ac := range ni.AccessConfigs { if ac.NatIP != "" { return ac.NatIP } }
FirstNatIP(acs) ==
    IF acs = <<>> THEN ""
    ELSE IF Head(acs) # "" THEN Head(acs)
    ELSE FirstNatIP(Tail(acs))

RECURSIVE GetIP(_)
\* getIP over the interfaces left.
GetIP(nis) ==
    IF nis = <<>> THEN ""
    ELSE IF Head(nis).isNil THEN GetIP(Tail(nis))
    ELSE IF FirstNatIP(Head(nis).natIPs) # "" THEN FirstNatIP(Head(nis).natIPs)
    ELSE GetIP(Tail(nis))

\* fmt.Sprintf("%s:22", ipAddr)
DialAddr(ip) == ip \o ":22"

\* One call of sshClient: refreshInstance, getIP, ssh.Dial.
SSHClient ==
    /\ sshPC = "call"
    /\ \/ /\ sshRet' = "refreshErr"
          /\ UNCHANGED dialed
       \/ /\ GetIP(nics) = ""
          /\ sshRet' = "no IP address found"
          /\ UNCHANGED dialed
       \/ /\ GetIP(nics) # ""
          /\ dialed' = Append(dialed, DialAddr(GetIP(nics)))
          /\ sshRet' \in {"client", "dialErr"}
    /\ sshPC' = "returned"
    /\ UNCHANGED nics
    /\ UNCHANGED <<ctxErr, instanceVars, providerVars, legacyVars, filterVars>>

\* An instance handle at the call of sshClient, and any interfaces the refresh
\* may show.
IPInit ==
    /\ ctxErr = "nil"
    /\ StartIdle
    /\ UploadIdle
    /\ RunIdle
    /\ StopIdle
    /\ ProviderIdle
    /\ LegacyIdle
    /\ FilterIdle
    /\ nics \in UNION {[1..n -> Interfaces] : n \in 0..MaxNics}
    /\ sshPC = "call"
    /\ dialed = <<>>
    /\ sshRet = "none"

IPNext == SSHClient

IPSpec == IPInit /\ [][IPNext]_vars

(***************************************************************************)
(* Properties of getIP.                                                    *)
(***************************************************************************)

SSHReturned == sshPC = "returned"

\* The positions of the access configs, interface by interface.
Positions ==
    UNION {{<<i, j>> : j \in 1..Len(nics[i].natIPs)} :
              i \in {k \in 1..Len(nics) : ~nics[k].isNil}}

Before(p, q) == p[1] < q[1] \/ (p[1] = q[1] /\ p[2] < q[2])

NatIPAt(p) == nics[p[1]].natIPs[p[2]]

\* The first position holding a non-empty NatIP, if there is one.
FirstPositions ==
    {q \in Positions : NatIPAt(q) # "" /\ \A p \in Positions : Before(p, q) => NatIPAt(p) = ""}

\* C24: when the refresh succeeds, sshClient dials the first non-empty NatIP in
\* iteration order over the interfaces and their access configs, port 22, and
\* nothing else; when there is none it fails with "no IP address found" and
\* dials nothing.
C24_FirstNatIP ==
    (SSHReturned /\ sshRet # "refreshErr") =>
       /\ FirstPositions = {} => (sshRet = "no IP address found" /\ dialed = <<>>)
       /\ \A q \in FirstPositions :
             /\ dialed = <<NatIPAt(q) \o ":22">>
             /\ sshRet \in {"client", "dialErr"}

\* The interfaces of the example: one with nil access configs, one whose first
\* NatIP is empty and whose second is 1.2.3.4, which was dialed.
C24_Witness ==
    /\ SSHReturned
    /\ nics = <<[isNil |-> TRUE, natIPs |-> <<>>],
                [isNil |-> FALSE, natIPs |-> <<"", "1.2.3.4">>]>>
    /\ dialed = <<"1.2.3.4:22">>
    /\ sshRet = "client"


(***************************************************************************)
(* A job on an instance: the script is uploaded, and once UploadScript has *)
(* returned nil it is run.                                                 *)
(***************************************************************************)

\* RunScript is called on the instance the script was uploaded to.
RunCall ==
    /\ uploadPC = "returned"
    /\ uploadRet = "nil"
    /\ runPC = "idle"
    /\ runPC' = "ssh"
    /\ UNCHANGED <<remote, exitStatus, runRet, runOpen>>
    /\ UNCHANGED <<ctxErr, nonRunVars>>

JobNext ==
    \/ UploadNext
    \/ RunCall
    \/ RemoteExit
    \/ RemoteLost
    \/ RunStep

JobSpec == UploadInit /\ [][JobNext]_vars

(***************************************************************************)
(* Properties of the connections of a job.                                 *)
(***************************************************************************)

\* C25: outside an upload attempt the uploader holds no SSH or SFTP client open,
\* and outside RunScript no SSH client or session is open: whatever an attempt
\* or RunScript opened is closed when it returns, on every exit path; inside,
\* exactly the connections opened so far are open.
C25_ConnectionsClosed ==
    /\ uploaderPC \in {"none", "top", "sleep", "send", "done"} => uploadOpen = {}
    /\ uploaderPC = "sftp" => uploadOpen = {"ssh"}
    /\ uploaderPC \in {"lstat", "create", "write"} => uploadOpen = {"ssh", "sftp"}
    /\ runPC \in {"idle", "ssh", "returned"} => runOpen = {}
    /\ runPC = "session" => runOpen = {"ssh"}
    /\ runPC \in {"pty", "run"} => runOpen = {"ssh", "session"}

\* The script was uploaded at the third attempt, after an SFTP setup failure and
\* a Create failure, and the command it ran exited with an error status:
\* nothing is left open.
C25_Witness ==
    /\ attemptLog = <<"sftpErr", "createErr", "ok">>
    /\ RunReturned
    /\ runRet.completed
    /\ runRet.exitCode = 1
    /\ uploadOpen = {}
    /\ runOpen = {}

====
